---- MODULE Spec2Model ----
(***************************************************************************)
(* A model of the file utilities of aarchiba_tools:                        *)
(*   ensure_list, need_rerun and write_file_if_changed                     *)
(* (src/src/aarchiba_tools/__init__.py), run against a small filesystem    *)
(* with a coarse modification-time clock, as the tests in                  *)
(* src/test/test_files.py do.                                              *)
(*                                                                         *)
(* Python values are records [t, v]: t is the Python type ("str", "bytes", *)
(* "int", "list") and v the payload.  A str is a sequence of characters    *)
(* (one-character TLA+ strings), a bytes object and a file's data are      *)
(* sequences of byte values, a list is a sequence of Python values.        *)
(***************************************************************************)
EXTENDS Integers, Sequences, FiniteSets, TLC

\* Largest value of the filesystem clock.
MaxTime == 2
\* Longest list passed as inputs or outputs of need_rerun.
MaxLen == 2

VARIABLES
    fs,     \* the directory: file name -> [exists, mtime, data]
    now,    \* the filesystem clock that stamps modification times
    call,   \* the call of the program that has just returned, or NoCall
    prev,   \* the write_file_if_changed call before it, when nothing came between
    pc,     \* concurrent callers: position inside write_file_if_changed
    arg,    \* concurrent callers: the content argument of the call
    lastWriter  \* concurrent callers: whose write reached the file last

vars == <<fs, now, call, prev, pc, arg, lastWriter>>

---------------------------------------------------------------------------
(* Python values *)

PyStr(cs) == [t |-> "str", v |-> cs]
PyBytes(bs) == [t |-> "bytes", v |-> bs]
PyInt(n) == [t |-> "int", v |-> n]
PyList(xs) == [t |-> "list", v |-> xs]

\* The outcome of a call: a returned value or a raised exception.
Returns(b) == [kind |-> "return", value |-> b, exc |-> ""]
Raises(e) == [kind |-> "raise", value |-> FALSE, exc |-> e]

---------------------------------------------------------------------------
(* Text files: encoding and newline handling of open(..., "rt"/"wt") *)

\* The character U+00E9, the one non-ASCII character of the model.
EAcute == "U+00E9"

\* UTF-8 encoding of one character.
EncodeChar(c) ==
    CASE c = "a" -> <<97>>
      [] c = "b" -> <<98>>
      [] c = "L" -> <<76>>
      [] c = "f" -> <<102>>
      [] c = "@" -> <<64>>
      [] c = "#" -> <<35>>
      [] c = " " -> <<32>>
      [] c = "\n" -> <<10>>
      [] c = "\r" -> <<13>>
      [] c = EAcute -> <<195, 169>>

\* The one-byte characters, by byte value.
DecodeByte(b) ==
    CASE b = 97 -> "a"
      [] b = 98 -> "b"
      [] b = 76 -> "L"
      [] b = 102 -> "f"
      [] b = 64 -> "@"
      [] b = 35 -> "#"
      [] b = 32 -> " "
      [] b = 10 -> "\n"
      [] b = 13 -> "\r"

RECURSIVE Encode(_)
Encode(cs) ==
    IF cs = <<>> THEN <<>> ELSE EncodeChar(Head(cs)) \o Encode(Tail(cs))

\* UTF-8 decoding: [ok, v]; ok is FALSE on a malformed sequence
\* (UnicodeDecodeError).
RECURSIVE Decode(_)
Decode(bs) ==
    IF bs = <<>> THEN [ok |-> TRUE, v |-> <<>>]
    ELSE IF Head(bs) < 128
    THEN LET r == Decode(Tail(bs))
         IN  [ok |-> r.ok, v |-> IF r.ok THEN <<DecodeByte(Head(bs))>> \o r.v ELSE <<>>]
    ELSE IF Head(bs) = 195 /\ Len(bs) >= 2 /\ bs[2] = 169
    THEN LET r == Decode(Tail(Tail(bs)))
         IN  [ok |-> r.ok, v |-> IF r.ok THEN <<EAcute>> \o r.v ELSE <<>>]
    ELSE [ok |-> FALSE, v |-> <<>>]

\* os.linesep on the POSIX platform the tests run on.
LineSep == <<"\n">>

\* Text-mode write: every "\n" becomes os.linesep.
RECURSIVE TranslateOut(_)
TranslateOut(cs) ==
    IF cs = <<>> THEN <<>>
    ELSE (IF Head(cs) = "\n" THEN LineSep ELSE <<Head(cs)>>) \o TranslateOut(Tail(cs))

\* Text-mode read (universal newlines): "\r\n" and a lone "\r" become "\n".
RECURSIVE TranslateIn(_)
TranslateIn(cs) ==
    IF cs = <<>> THEN <<>>
    ELSE IF Head(cs) = "\r"
    THEN IF Len(cs) >= 2 /\ cs[2] = "\n"
         THEN <<"\n">> \o TranslateIn(Tail(Tail(cs)))
         ELSE <<"\n">> \o TranslateIn(Tail(cs))
    ELSE <<Head(cs)>> \o TranslateIn(Tail(cs))

\* open(fname, "rt").read() on a file holding data: [ok, v], v a str.
ReadText(data) ==
    LET d == Decode(data)
    IN  [ok |-> d.ok, v |-> PyStr(IF d.ok THEN TranslateIn(d.v) ELSE <<>>)]

\* open(fname, "rb").read() on a file holding data.
ReadBinary(data) == [ok |-> TRUE, v |-> PyBytes(data)]

\* The bytes open(fname, "wt").write(s) puts in the file.
WriteText(cs) == Encode(TranslateOut(cs))

\* file.readlines(): the text cut after every "\n".
RECURSIVE SplitLines(_, _)
SplitLines(cs, cur) ==
    IF cs = <<>> THEN (IF cur = <<>> THEN <<>> ELSE <<cur>>)
    ELSE IF Head(cs) = "\n"
    THEN <<Append(cur, "\n")>> \o SplitLines(Tail(cs), <<>>)
    ELSE SplitLines(Tail(cs), Append(cur, Head(cs)))

readlines(cs) == SplitLines(cs, <<>>)

\* str.strip(): whitespace removed from both ends.
Whitespace == {" ", "\n", "\r"}

RECURSIVE lstrip(_)
lstrip(cs) ==
    IF cs # <<>> /\ Head(cs) \in Whitespace THEN lstrip(Tail(cs)) ELSE cs

RECURSIVE rstrip(_)
rstrip(cs) ==
    IF cs # <<>> /\ cs[Len(cs)] \in Whitespace
    THEN rstrip(SubSeq(cs, 1, Len(cs) - 1)) ELSE cs

strip(cs) == rstrip(lstrip(cs))

\* str.startswith of a one-character prefix.
startswith(cs, c) == Len(cs) >= 1 /\ cs[1] = c

---------------------------------------------------------------------------
(* The filesystem *)

FileNames == {<<"a">>, <<"b">>, <<"L">>, <<"f">>}

NoFile == [exists |-> FALSE, mtime |-> 0, data |-> <<>>]
File(t, d) == [exists |-> TRUE, mtime |-> t, data |-> d]

\* File descriptors open in the process (stdin, stdout, stderr); an int
\* path names a descriptor.
OpenFds == {0, 1, 2}

\* The file name a str or bytes path stands for (os.fsdecode).
PathName(p) == IF p.t = "bytes" THEN Decode(p.v).v ELSE p.v

NoExc == ""

\* os.stat(p): the exception it raises, or NoExc.  A path is a str, a bytes
\* or an int; anything else is a TypeError.
StatError(p, F) ==
    IF p.t = "list" THEN "TypeError"
    ELSE IF p.t = "int" THEN (IF p.v \in OpenFds THEN NoExc ELSE "OSError")
    ELSE IF PathName(p) \in FileNames /\ F[PathName(p)].exists THEN NoExc
    ELSE "FileNotFoundError"

\* os.path.exists(p): [exc, v].  The OSError of os.stat is caught and gives
\* False, its TypeError is not caught.
exists(p, F) ==
    LET e == StatError(p, F)
    IN  IF e = "TypeError" THEN [exc |-> e, v |-> FALSE]
        ELSE [exc |-> NoExc, v |-> e = NoExc]

\* os.path.getmtime(p): [exc, t].  M gives the mtime of the file behind each
\* open descriptor at the time of the call: the terminal or redirected file
\* is stamped from outside the directory, whenever it is written.
getmtime(p, F, M) ==
    LET e == StatError(p, F)
    IN  IF e # NoExc THEN [exc |-> e, t |-> 0]
        ELSE [exc |-> NoExc, t |-> IF p.t = "int" THEN M[p.v] ELSE F[PathName(p)].mtime]

\* The path exists; the path is a path and does not exist.
Present(p, F) == exists(p, F).exc = NoExc /\ exists(p, F).v
Absent(p, F) == exists(p, F).exc = NoExc /\ ~exists(p, F).v

---------------------------------------------------------------------------
(* ensure_list and need_rerun *)

\* ensure_list that forgets the integers.
ensure_list_StringsOnly(l) ==
    IF l.t = "str" THEN PyList(<<l>>) ELSE l

\* Allow a single string or integer to be treated like a one-element list.
ensure_list(l) ==
    IF l.t = "str" \/ l.t = "int" THEN PyList(<<l>>) ELSE l

\* len(x) is defined and iteration works for lists, strings and bytes, not
\* for an int.  Iterating a str yields one-character strings, iterating
\* bytes yields ints.
Sized(x) == x.t \in {"list", "str", "bytes"}
PyLen(x) == Len(x.v)
Iter(x) ==
    IF x.t = "list" THEN x.v
    ELSE IF x.t = "str" THEN [k \in 1..Len(x.v) |-> PyStr(<<x.v[k]>>)]
    ELSE [k \in 1..Len(x.v) |-> PyInt(x.v[k])]

\* One pass of the expansion loop: the paths entry i contributes, or the
\* exception it raises.
ExpandEntry(i, F) ==
    IF i.t = "bytes" THEN [exc |-> "TypeError", v |-> <<>>]
    ELSE IF i.t # "str" THEN [exc |-> "AttributeError", v |-> <<>>]
    ELSE IF startswith(i.v, "@")
    THEN LET name == Tail(i.v)
         IN  IF ~Present(PyStr(name), F)
             THEN [exc |-> "FileNotFoundError", v |-> <<>>]
             ELSE LET r == ReadText(F[name].data)
                      ls == readlines(r.v.v)
                  IN  IF ~r.ok THEN [exc |-> "UnicodeDecodeError", v |-> <<>>]
                      ELSE [exc |-> NoExc,
                            v |-> [k \in 1..Len(ls) |-> PyStr(strip(ls[k]))]]
    ELSE [exc |-> NoExc, v |-> <<i>>]

\* The expansion loop over io, stopping at the first exception.
RECURSIVE Expand(_, _)
Expand(io, F) ==
    IF io = <<>> THEN [exc |-> NoExc, v |-> <<>>]
    ELSE LET h == ExpandEntry(Head(io), F)
         IN  IF h.exc # NoExc THEN h
             ELSE LET r == Expand(Tail(io), F)
                  IN  IF r.exc # NoExc THEN r
                      ELSE [exc |-> NoExc, v |-> h.v \o r.v]

\* oldest_out: np.inf until an output has been seen.
Infinity == [inf |-> TRUE, t |-> 0]
Finite(t) == [inf |-> FALSE, t |-> t]
Less(t, oldest) == oldest.inf \/ t < oldest.t
\* The comparison with ties counted as newer.
GreaterOrEqual(t, oldest) == ~oldest.inf /\ t >= oldest.t
Greater(t, oldest) == ~oldest.inf /\ t > oldest.t

\* The outputs loop passing over a missing output instead of reporting it.
RECURSIVE ScanOutputsSkipMissing(_, _, _, _)
ScanOutputsSkipMissing(outs, F, M, oldest) ==
    IF outs = <<>> THEN [exc |-> NoExc, missing |-> FALSE, oldest |-> oldest]
    ELSE IF exists(Head(outs), F).exc # NoExc
    THEN [exc |-> exists(Head(outs), F).exc, missing |-> FALSE, oldest |-> oldest]
    ELSE IF ~exists(Head(outs), F).v
    THEN ScanOutputsSkipMissing(Tail(outs), F, M, oldest)
    ELSE LET ot == getmtime(Head(outs), F, M).t
         IN  ScanOutputsSkipMissing(Tail(outs), F, M,
                                    IF Less(ot, oldest) THEN Finite(ot) ELSE oldest)

\* The loop over the outputs: an exception of os.path.exists, a missing
\* output, or the oldest mtime.
RECURSIVE ScanOutputs(_, _, _, _)
ScanOutputs(outs, F, M, oldest) ==
    IF outs = <<>> THEN [exc |-> NoExc, missing |-> FALSE, oldest |-> oldest]
    ELSE IF exists(Head(outs), F).exc # NoExc
    THEN [exc |-> exists(Head(outs), F).exc, missing |-> FALSE, oldest |-> oldest]
    ELSE IF ~exists(Head(outs), F).v
    THEN [exc |-> NoExc, missing |-> TRUE, oldest |-> oldest]
    ELSE LET ot == getmtime(Head(outs), F, M).t
         IN  ScanOutputs(Tail(outs), F, M,
                         IF Less(ot, oldest) THEN Finite(ot) ELSE oldest)

\* The loop over the expanded inputs; getmtime raises on a missing path.
RECURSIVE ScanInputs(_, _, _, _)
ScanInputs(ins, F, M, oldest) ==
    IF ins = <<>> THEN Returns(FALSE)
    ELSE LET m == getmtime(Head(ins), F, M)
         IN  IF m.exc # NoExc THEN Raises(m.exc)
             ELSE IF Greater(m.t, oldest) THEN Returns(TRUE)
             ELSE ScanInputs(Tail(ins), F, M, oldest)

\* The length check on the outputs, made before the inputs are expanded.
CheckOutputs(outs) ==
    IF ~Sized(outs) THEN "TypeError"
    ELSE IF PyLen(outs) = 0 THEN "ValueError"
    ELSE NoExc

\* need_rerun with the length check made after the expansion loop.
need_rerun_LateCheck(inputs, outputs, F, M) ==
    LET ins == ensure_list(inputs)
        outs == ensure_list(outputs)
        bad == CheckOutputs(outs)
    IN  IF ~Sized(ins) THEN Raises("TypeError")
        ELSE LET e == Expand(Iter(ins), F)
             IN  IF e.exc # NoExc THEN Raises(e.exc)
                 ELSE IF bad # NoExc THEN Raises(bad)
                 ELSE LET o == ScanOutputs(Iter(outs), F, M, Infinity)
                      IN  IF o.exc # NoExc THEN Raises(o.exc)
                          ELSE IF o.missing THEN Returns(TRUE)
                          ELSE ScanInputs(e.v, F, M, o.oldest)

need_rerun(inputs, outputs, F, M) ==
    LET ins == ensure_list(inputs)
        outs == ensure_list(outputs)
        bad == CheckOutputs(outs)
    IN  IF bad # NoExc THEN Raises(bad)
        ELSE IF ~Sized(ins) THEN Raises("TypeError")
        ELSE LET e == Expand(Iter(ins), F)
             IN  IF e.exc # NoExc THEN Raises(e.exc)
                 ELSE LET o == ScanOutputs(Iter(outs), F, M, Infinity)
                      IN  IF o.exc # NoExc THEN Raises(o.exc)
                          ELSE IF o.missing THEN Returns(TRUE)
                          ELSE ScanInputs(e.v, F, M, o.oldest)

---------------------------------------------------------------------------
(* write_file_if_changed *)

PY3 == TRUE

\* rmode/wmode: text for a str under Python 3, binary otherwise.
TextMode(s) == PY3 /\ s.t = "str"

\* open(fname, rmode).read()
ReadFile(data, s) == IF TextMode(s) THEN ReadText(data) ELSE ReadBinary(data)

\* The bytes open(fname, wmode) and f.write(s) leave in the file.
WrittenData(s) == IF TextMode(s) THEN WriteText(s.v) ELSE s.v

\* The condition of the if: the file is missing or reads back different.
MustWrite(fname, s, F) ==
    \/ ~Present(fname, F)
    \/ ReadFile(F[fname.v].data, s).v # s

\* The call on directory F at clock value t: the outcome, whether the file
\* was written, and the directory afterwards.
write_file_if_changed(fname, s, F, t) ==
    IF Present(fname, F) /\ ~ReadFile(F[fname.v].data, s).ok
    THEN [result |-> Raises("UnicodeDecodeError"), wrote |-> FALSE, fs |-> F]
    ELSE IF MustWrite(fname, s, F)
    THEN [result |-> Returns(TRUE), wrote |-> TRUE,
          fs |-> [F EXCEPT ![fname.v] = File(t, WrittenData(s))]]
    ELSE [result |-> Returns(TRUE), wrote |-> FALSE, fs |-> F]

---------------------------------------------------------------------------
(* Arguments the callers pass *)

A == PyStr(<<"a">>)
B == PyStr(<<"b">>)
L == PyStr(<<"L">>)
AtL == PyStr(<<"@", "L">>)
\* A descriptor that is not open, and stdin.
Fd == PyInt(7)
Stdin == PyInt(0)

\* A bytes path, and the bytes whose one element is descriptor 0.
BytesA == PyBytes(<<97>>)
BytesNul == PyBytes(<<0>>)
\* An entry that is not a path.
Nested == PyList(<<>>)

InputEntries == {A, B, AtL}
OutputEntries == {A, B, Stdin}

\* Arguments of the other types the code lets through to str.startswith
\* and to os.path.exists.
OtherInputs ==
    {Fd, BytesA, PyList(<<Fd, AtL>>), PyList(<<A, Fd>>), PyList(<<BytesA>>),
     PyList(<<Nested>>)}
OtherOutputs ==
    {Fd, BytesA, BytesNul, PyBytes(<<>>), PyList(<<BytesA>>), PyList(<<Nested>>),
     PyList(<<A, Nested>>), PyList(<<Nested, B>>)}

\* The sequences over S of length at most n that repeat no element.
InjSeqs(S, n) ==
    UNION {{s \in [1..k -> S] : \A i, j \in 1..k : i # j => s[i] # s[j]} : k \in 0..n}

InputArgs ==
    InputEntries \cup OtherInputs \cup {PyList(s) : s \in InjSeqs(InputEntries, MaxLen)}
OutputArgs ==
    OutputEntries \cup OtherOutputs \cup {PyList(s) : s \in InjSeqs(OutputEntries, MaxLen)}

\* The open descriptors among the outputs: the ones the call asks the
\* mtime of.
StatFds(outs) ==
    LET os == Iter(ensure_list(outs))
    IN  {os[k].v : k \in {j \in DOMAIN os : os[j].t = "int"}} \cap OpenFds

\* List files: two plain names; a comment, a blank line, a padded name
\* with a CRLF line end and a last line with no newline; and bytes that are
\* not UTF-8.
ListTexts ==
    {PyStr(<<"a", "\n", "b", "\n">>),
     PyStr(<<"#", "a", "\n", "\n", " ", "b", " ", "\r", "\n", "a">>),
     PyBytes(<<195>>)}

---------------------------------------------------------------------------
(* State machine *)

NoCall == [op |-> "none"]
NoPrev == [op |-> "none"]

Procs == {1, 2}

Init ==
    /\ fs = [n \in FileNames |-> NoFile]
    /\ now = 0
    /\ call = NoCall
    /\ prev = NoPrev
    /\ pc = [p \in Procs |-> "idle"]
    /\ arg = [p \in Procs |-> PyBytes(<<>>)]
    /\ lastWriter = 0

Idle == call = NoCall /\ \A p \in Procs : pc[p] = "idle"

\* prev survives only while nothing else touches its file.
Forget(n) == IF prev # NoPrev /\ prev.fname.v = n THEN NoPrev ELSE prev

\* The clock advances.
Tick ==
    /\ call = NoCall
    /\ now < MaxTime
    /\ now' = now + 1
    /\ UNCHANGED <<fs, call, prev, pc, arg, lastWriter>>

\* touch f: create the file empty, or stamp it with the current time.
Touch(n) ==
    /\ Idle
    /\ fs' = [fs EXCEPT ![n] = File(now, fs[n].data)]
    /\ prev' = Forget(n)
    /\ UNCHANGED <<now, call, pc, arg, lastWriter>>

\* open(fn, "wt" or "wb").write(s): the file is written unconditionally.
CreateFile(n, s) ==
    /\ Idle
    /\ fs' = [fs EXCEPT ![n] = File(now, WrittenData(s))]
    /\ prev' = Forget(n)
    /\ UNCHANGED <<now, call, pc, arg, lastWriter>>

\* The call; the mtimes of the descriptors are whatever their files have
\* by now.
NeedRerun(ins, outs) ==
    /\ Idle
    /\ \E m \in [StatFds(outs) -> 0..now] :
          call' = [op |-> "need_rerun", inputs |-> ins, outputs |-> outs, fdm |-> m,
                   result |-> need_rerun(ins, outs, fs, m)]
    /\ UNCHANGED <<fs, now, prev, pc, arg, lastWriter>>

WriteFileIfChanged(fname, s) ==
    /\ Idle
    /\ LET r == write_file_if_changed(fname, s, fs, now)
       IN  /\ fs' = r.fs
           /\ call' = [op |-> "write", fname |-> fname, s |-> s, pre |-> fs[fname.v],
                       result |-> r.result, wrote |-> r.wrote]
    /\ UNCHANGED <<now, prev, pc, arg, lastWriter>>

\* The call returns to its caller.
ReturnToCaller ==
    /\ call # NoCall
    /\ call' = NoCall
    /\ prev' = IF call.op = "write" /\ call.result.kind = "return"
               THEN [op |-> "write", fname |-> call.fname, s |-> call.s]
               ELSE NoPrev
    /\ UNCHANGED <<fs, now, pc, arg, lastWriter>>

RerunFiles == {<<"a">>, <<"b">>, <<"L">>}

NextRerun ==
    \/ Tick
    \/ \E n \in RerunFiles : Touch(n)
    \/ \E s \in ListTexts : CreateFile(<<"L">>, s)
    \/ \E ins \in InputArgs, outs \in OutputArgs : NeedRerun(ins, outs)
    \/ ReturnToCaller

SpecRerun == Init /\ [][NextRerun]_vars

---------------------------------------------------------------------------
(* Sequential callers of write_file_if_changed *)

F == PyStr(<<"f">>)

\* Contents written: text with LF, text with CRLF, non-ASCII text, bytes,
\* and bytes that are not UTF-8.
WriteContents ==
    {PyStr(<<"a", "\n">>), PyStr(<<"b", "\n">>), PyStr(<<"a", "\r", "\n">>),
     PyStr(<<EAcute>>),
     PyBytes(<<97, 10>>), PyBytes(<<98, 10>>), PyBytes(<<195>>)}

NextWrite ==
    \/ Tick
    \/ Touch(F.v)
    \/ \E s \in WriteContents : CreateFile(F.v, s)
    \/ \E s \in WriteContents : WriteFileIfChanged(F, s)
    \/ ReturnToCaller

SpecWrite == Init /\ [][NextWrite]_vars

---------------------------------------------------------------------------
(* Concurrent callers of write_file_if_changed on one file, with no lock:  *)
(* the existence check, the read and comparison, the truncating open and   *)
(* the write (flushed at close) are separate steps.                        *)

ConcContents == {PyBytes(<<97>>), PyBytes(<<98>>), PyBytes(<<98, 98>>)}

\* A write of bytes at offset 0 over what the file holds by then.
OverlayAppend(bytes, data) == data \o bytes
Overlay(bytes, data) == bytes \o SubSeq(data, Len(bytes) + 1, Len(data))

Begin(p, s) ==
    /\ call = NoCall
    /\ pc[p] = "idle"
    /\ pc' = [pc EXCEPT ![p] = "check"]
    /\ arg' = [arg EXCEPT ![p] = s]
    /\ UNCHANGED <<fs, now, call, prev, lastWriter>>

\* not os.path.exists(fname)
CheckExists(p) ==
    /\ pc[p] = "check"
    /\ pc' = [pc EXCEPT ![p] = IF Present(F, fs) THEN "read" ELSE "open"]
    /\ UNCHANGED <<fs, now, call, prev, arg, lastWriter>>

\* open(fname, rmode).read() != s
ReadCompare(p) ==
    /\ pc[p] = "read"
    /\ LET r == ReadFile(fs[F.v].data, arg[p])
       IN  pc' = [pc EXCEPT ![p] = IF ~r.ok THEN "raised"
                                   ELSE IF r.v # arg[p] THEN "open" ELSE "done"]
    /\ UNCHANGED <<fs, now, call, prev, arg, lastWriter>>

\* open(fname, wmode): the file is created or truncated.
OpenTruncate(p) ==
    /\ pc[p] = "open"
    /\ fs' = [fs EXCEPT ![F.v] = File(now, <<>>)]
    /\ pc' = [pc EXCEPT ![p] = "write"]
    /\ UNCHANGED <<now, call, prev, arg, lastWriter>>

\* f.write(s) and the close that flushes it, from the handle's offset 0.
WriteClose(p) ==
    /\ pc[p] = "write"
    /\ fs' = [fs EXCEPT ![F.v] = File(now, Overlay(WrittenData(arg[p]), fs[F.v].data))]
    /\ pc' = [pc EXCEPT ![p] = "done"]
    /\ lastWriter' = p
    /\ UNCHANGED <<now, call, prev, arg>>

\* The call returns; its caller may call again.
Finish(p) ==
    /\ pc[p] = "done"
    /\ pc' = [pc EXCEPT ![p] = "idle"]
    /\ UNCHANGED <<fs, now, call, prev, arg, lastWriter>>

NextConc ==
    \/ Tick
    \/ \E p \in Procs, s \in ConcContents : Begin(p, s)
    \/ \E p \in Procs : CheckExists(p)
    \/ \E p \in Procs : ReadCompare(p)
    \/ \E p \in Procs : OpenTruncate(p)
    \/ \E p \in Procs : WriteClose(p)
    \/ \E p \in Procs : Finish(p)

SpecConc == Init /\ [][NextConc]_vars

---------------------------------------------------------------------------
(* Properties of need_rerun, read off the call that has just returned.    *)
(* While call is set the directory is the one the call saw: every other   *)
(* action waits for ReturnToCaller.                                       *)

IsRerun == call.op = "need_rerun"

\* The arguments after normalisation, as one-element-or-more sequences.
CallInputs == Iter(ensure_list(call.inputs))
CallOutputs == Iter(ensure_list(call.outputs))
\* The inputs after the expansion loop of the code.
CallExpanded == Expand(CallInputs, fs)

AllExist(ps) == \A k \in DOMAIN ps : Present(ps[k], fs)
Mtimes(ps) == {getmtime(ps[k], fs, call.fdm).t : k \in DOMAIN ps}
Minimum(S) == CHOOSE m \in S : \A x \in S : m <= x

\* An entry that names a list file.
IsListEntry(i) == i.t = "str" /\ startswith(i.v, "@")
Opens(i) == Present(PyStr(Tail(i.v)), fs)
\* readlines() on the opened list file decodes it.
Reads(i) == ReadText(fs[Tail(i.v)].data).ok

\* C1: with all outputs (at least one) and all expanded inputs existing,
\* need_rerun returns True exactly when some input's mtime is strictly
\* greater than the smallest output mtime; equal mtimes and an empty input
\* sequence give False.
C1_RerunIffNewer ==
    (/\ IsRerun
     /\ CallOutputs # <<>> /\ AllExist(CallOutputs)
     /\ CallExpanded.exc = NoExc /\ AllExist(CallExpanded.v))
    => call.result =
         Returns(\E t \in Mtimes(CallExpanded.v) : t > Minimum(Mtimes(CallOutputs)))

\* Two outputs of different age, and an input newer than the older output
\* only: the call returns True.
C1_Witness ==
    /\ IsRerun
    /\ Len(CallOutputs) = 2 /\ AllExist(CallOutputs)
    /\ CallExpanded.exc = NoExc /\ CallExpanded.v # <<>> /\ AllExist(CallExpanded.v)
    /\ Cardinality(Mtimes(CallOutputs)) = 2
    /\ \A t \in Mtimes(CallExpanded.v) :
          /\ t > Minimum(Mtimes(CallOutputs))
          /\ \E u \in Mtimes(CallOutputs) : t <= u
    /\ call.result = Returns(TRUE)

\* C2 as stated: whenever some output does not exist, need_rerun returns
\* True whatever the inputs are.
C2_MissingOutputAnyInputs ==
    (IsRerun /\ \E k \in DOMAIN CallOutputs : Absent(CallOutputs[k], fs))
    => call.result = Returns(TRUE)

\* C2 amended: whenever some output does not exist, at any position, and
\* every output before it is a path (a str, a bytes or an int), need_rerun
\* returns True for every inputs argument made of strings whose '@' entries
\* all name list files that can be opened and read as text; plain input
\* paths may be missing, older or newer.
C2_MissingOutputReadableInputs ==
    (/\ IsRerun
     /\ \E k \in DOMAIN CallOutputs :
           /\ Absent(CallOutputs[k], fs)
           /\ \A j \in 1..(k - 1) : CallOutputs[j].t # "list"
     /\ \A k \in DOMAIN CallInputs :
           /\ CallInputs[k].t = "str"
           /\ IsListEntry(CallInputs[k]) => (Opens(CallInputs[k]) /\ Reads(CallInputs[k])))
    => call.result = Returns(TRUE)

\* The last of two outputs is the missing one, a list file was expanded and
\* a plain input does not exist: the call returns True.
C2_Witness ==
    /\ IsRerun
    /\ Len(CallOutputs) = 2
    /\ Present(CallOutputs[1], fs) /\ Absent(CallOutputs[2], fs)
    /\ Len(CallInputs) = 2
    /\ \E k \in 1..2 :
          IsListEntry(CallInputs[k]) /\ Opens(CallInputs[k]) /\ Reads(CallInputs[k])
    /\ CallExpanded.exc = NoExc /\ ~AllExist(CallExpanded.v)
    /\ call.result = Returns(TRUE)

\* The expansion the list-file format describes: the trimmed lines of the
\* list file in order, without the blank ones and the ones that start
\* with "#".
ListedPaths(ls) ==
    SelectSeq([k \in 1..Len(ls) |-> PyStr(strip(ls[k]))],
              LAMBDA q : q.v # <<>> /\ ~startswith(q.v, "#"))

RECURSIVE DocumentedExpansion(_)
DocumentedExpansion(io) ==
    IF io = <<>> THEN <<>>
    ELSE (IF IsListEntry(Head(io))
          THEN ListedPaths(readlines(ReadText(fs[Tail(Head(io).v)].data).v.v))
          ELSE <<Head(io)>>)
         \o DocumentedExpansion(Tail(io))

\* C6: an '@' entry is replaced in place by the trimmed lines of its list
\* file in file order, blank lines and '#' lines left out; other entries
\* are kept.
C6_ExpansionSkipsBlankAndComment ==
    (IsRerun /\ CallExpanded.exc = NoExc)
    => CallExpanded.v = DocumentedExpansion(CallInputs)

\* A scalar where a sequence is expected.
IsScalar(x) == x.t = "str" \/ x.t = "int"
AsList(x) == IF IsScalar(x) THEN PyList(<<x>>) ELSE x

\* C7: a single string or integer given as inputs, as outputs or as both
\* has the outcome of the one-element list holding it; ensure_list wraps
\* exactly the strings and the integers.
C7_ScalarAsOneElementList ==
    IsRerun =>
      /\ call.result = need_rerun(AsList(call.inputs), AsList(call.outputs), fs, call.fdm)
      /\ ensure_list(call.inputs) = AsList(call.inputs)
      /\ ensure_list(call.outputs) = AsList(call.outputs)
      /\ ensure_list(AsList(call.inputs)) = AsList(call.inputs)

\* A string as inputs against a string as outputs, both existing, and the
\* call returned a boolean.
C7_Witness ==
    /\ IsRerun
    /\ call.inputs.t = "str" /\ call.outputs.t = "str"
    /\ call.inputs # call.outputs
    /\ AllExist(CallOutputs)
    /\ call.result = Returns(TRUE)

\* C8: with outputs empty after normalisation the call raises ValueError
\* ("No outputs specified") whatever the inputs are, before any list file
\* is opened and before any timestamp is read.
C8_EmptyOutputsValueError ==
    (IsRerun /\ ensure_list(call.outputs) = PyList(<<>>))
    => call.result = Raises("ValueError")

\* No outputs, and inputs holding a list file that cannot be opened.
C8_Witness ==
    /\ IsRerun
    /\ call.outputs = PyList(<<>>)
    /\ \E k \in DOMAIN CallInputs :
          IsListEntry(CallInputs[k]) /\ ~Opens(CallInputs[k])
    /\ call.result = Raises("ValueError")

\* Some '@' entry among the inputs names a list file that cannot be opened.
ListFileUnopenable ==
    \E k \in DOMAIN CallInputs : IsListEntry(CallInputs[k]) /\ ~Opens(CallInputs[k])

\* Every output exists and the first of the expanded inputs (the listed
\* paths, blank and '#' lines left out) that is missing or newer than the
\* oldest output is a missing one.
ListedScanMeetsMissing ==
    /\ AllExist(CallOutputs)
    /\ LET ins == DocumentedExpansion(CallInputs)
       IN  \E k \in DOMAIN ins :
              /\ Absent(ins[k], fs)
              /\ \A j \in 1..(k - 1) :
                    /\ Present(ins[j], fs)
                    /\ getmtime(ins[j], fs, call.fdm).t <= Minimum(Mtimes(CallOutputs))

\* C9: with outputs given, need_rerun raises FileNotFoundError exactly when
\* an '@' list file among the inputs cannot be opened, or every output
\* exists and the first expanded input that is missing or newer than the
\* oldest output is a missing one.
C9_MissingFileExactly ==
    (IsRerun /\ CallOutputs # <<>>)
    => (call.result = Raises("FileNotFoundError")
          <=> (ListFileUnopenable \/ ListedScanMeetsMissing))

---------------------------------------------------------------------------
(* Properties of write_file_if_changed *)

IsWrite == call.op = "write" /\ call.result.kind = "return"

\* The file the call was made on, as it is now.
Target == fs[call.fname.v]

\* C3: after a successful call the file exists and reading it back, in the
\* mode of the content, returns exactly the content.
C3_ReadBackExact ==
    IsWrite =>
      /\ Present(call.fname, fs)
      /\ ReadFile(Target.data, call.s) = [ok |-> TRUE, v |-> call.s]

\* The file already held the content, byte for byte.
PriorEqual == call.pre.data = WrittenData(call.s)

\* C4: on an existing file whose timestamp is older than the clock, the
\* timestamp is unchanged exactly when the prior content was already the
\* content: then nothing is written, and otherwise the file is rewritten
\* and its timestamp changes.
C4_TimestampKeptIffEqual ==
    (IsWrite /\ call.pre.exists /\ call.pre.mtime < now)
    => /\ (Target.mtime = call.pre.mtime) <=> PriorEqual
       /\ PriorEqual => (~call.wrote /\ Target = call.pre)
       /\ ~PriorEqual => (call.wrote /\ Target.mtime # call.pre.mtime)

\* The call before this one was the same call and nothing touched the file
\* in between.
Repeated == prev # NoPrev /\ prev.fname = call.fname /\ prev.s = call.s

\* C5: the second of two identical calls in a row writes nothing: content
\* and timestamp stay as the first call left them.
C5_SecondCallWritesNothing ==
    (IsWrite /\ Repeated) => (~call.wrote /\ Target = call.pre)

---------------------------------------------------------------------------
(* Properties of the concurrent callers *)

\* Each caller has made a call and its latest call has run to its end
\* (returned already or not).
BothDone == \A p \in Procs : arg[p] \in ConcContents /\ pc[p] \in {"done", "idle"}
Other(p) == CHOOSE q \in Procs : q # p

\* C10 as stated: once two concurrent calls with different contents are
\* done, the file holds the content of one of them.
C10_OneOfTheContents ==
    (BothDone /\ arg[1] # arg[2])
    => \E p \in Procs : fs[F.v].data = WrittenData(arg[p])

\* What the last writer's content leaves of the other call's content.
TailOf(q, p) ==
    SubSeq(WrittenData(arg[q]), Len(WrittenData(arg[p])) + 1, Len(WrittenData(arg[q])))

\* C10 amended: once both calls are done the file starts with the whole
\* content of the call that wrote last, followed by nothing or by the rest
\* of the other call's longer content; so it is not empty, and it is one of
\* the two contents when they have the same length.
C10_LastWriterPrefix ==
    (BothDone /\ arg[1] # arg[2])
    => /\ lastWriter \in Procs
       /\ LET w == WrittenData(arg[lastWriter])
              t == TailOf(Other(lastWriter), lastWriter)
          IN  /\ fs[F.v].data \in {w, w \o t}
              /\ fs[F.v].data # <<>>
              /\ Len(WrittenData(arg[1])) = Len(WrittenData(arg[2]))
                   => fs[F.v].data = w

\* Both calls are done and the file holds the last writer's content
\* followed by the tail of the other's.
C10_Witness ==
    /\ BothDone /\ arg[1] # arg[2]
    /\ lastWriter \in Procs
    /\ fs[F.v].data # WrittenData(arg[lastWriter])
    /\ fs[F.v].data =
         WrittenData(arg[lastWriter]) \o TailOf(Other(lastWriter), lastWriter)

====
